---------------------------- MODULE Spec2Model ----------------------------
(***************************************************************************)
(* A model of calculate_metrics.py: rasterization of COCO polygon          *)
(* annotations into two combined masks (evaluate_metrics, points_to_mask)  *)
(* and the six mask-comparison metrics.                                    *)
(*                                                                         *)
(* Numbers.  Pixel counts are Python/numpy integers.  Every value the code *)
(* obtains with "/" is a float; it is modelled by the exact rational       *)
(* <<numerator, denominator>> in lowest terms, so equalities between       *)
(* metrics are equalities in exact arithmetic (float rounding is not       *)
(* modelled).  An integer n is the rational <<n, 1>>.                      *)
(*                                                                         *)
(* Masks.  A mask of shape (height, width) is a function from              *)
(* <<row, col>> to a uint8 value; a point (x, y) of a polygon addresses    *)
(* the pixel <<y, x>>.                                                     *)
(***************************************************************************)
EXTENDS Integers, Sequences, FiniteSets, TLC

VARIABLES pc, config, img_shape, gt_annotations, pred_annotations,
          gt_combined_mask, pred_combined_mask, gi, pj, gt_masks, pred_masks,
          result

(* gt_masks and pred_masks record the masks points_to_mask has returned in *)
(* each loop so far; the locals gt_mask and pred_mask of the code are      *)
(* their last elements.                                                    *)
vars == <<pc, config, img_shape, gt_annotations, pred_annotations,
          gt_combined_mask, pred_combined_mask, gi, pj, gt_masks, pred_masks,
          result>>

(* A Python local that has not been assigned yet. *)
None == "None"

(***************************************************************************)
(* Bounds of the model.                                                    *)
(***************************************************************************)
(* Spec: image shapes with height * width <= MaxPixels are enumerated.     *)
MaxPixels == 4
(* Spec: total number of annotations in the two files together.            *)
MaxAnn == 2
(* SpecMasks: mask shapes with height * width <= MaxMaskPixels.            *)
MaxMaskPixels == 7

(* The fill colour passed to cv2.fillPoly, and the divisor of mask.sum().  *)
Positive == 255
(* Number of values of a uint8 cell. *)
Uint8Range == 256

(***************************************************************************)
(* Exact rationals for Python's true division.                             *)
(***************************************************************************)
RECURSIVE GCD(_, _)
GCD(a, b) == IF b = 0 THEN a ELSE GCD(b, a % b)

Norm(n, d) == LET g == GCD(n, d) IN <<n \div g, d \div g>>

R(n) == <<n, 1>>

(* a / b for b # 0 *)
RDiv(a, b) == Norm(a[1] * b[2], a[2] * b[1])
RMul(a, b) == Norm(a[1] * b[1], a[2] * b[2])
RAdd(a, b) == Norm(a[1] * b[2] + b[1] * a[2], a[2] * b[2])
RLe(a, b) == a[1] * b[2] <= b[1] * a[2]

(***************************************************************************)
(* numpy helpers                                                           *)
(***************************************************************************)
Pixels(shape) == (0 .. shape[1] - 1) \X (0 .. shape[2] - 1)

(* mask.shape: (rows, columns) *)
ShapeOf(mask) ==
    <<Cardinality({p[1] : p \in DOMAIN mask}), Cardinality({p[2] : p \in DOMAIN mask})>>

(* np.zeros(img_shape, dtype=np.uint8) *)
Zeros(shape) == [p \in Pixels(shape) |-> 0]

(* np.logical_and(mask1, mask2): nonzero cells are true *)
LogicalAnd(mask1, mask2) == [p \in DOMAIN mask1 |-> mask1[p] # 0 /\ mask2[p] # 0]

(* np.logical_or(mask1, mask2) *)
LogicalOr(mask1, mask2) == [p \in DOMAIN mask1 |-> mask1[p] # 0 \/ mask2[p] # 0]

(* boolArray.sum(): the number of True cells *)
SumBool(b) == Cardinality({p \in DOMAIN b : b[p]})

(* pred == gt, element-wise *)
EqualCells(pred, gt) == [p \in DOMAIN pred |-> pred[p] = gt[p]]

(* mask.sum() of a uint8 array: numpy accumulates in a 64-bit integer, so  *)
(* the sum of the cell values does not wrap.                               *)
MaskSum(mask) ==
    LET S == DOMAIN mask
        vals == {mask[p] : p \in S}
    IN  LET RECURSIVE Total(_)
            Total(V) == IF V = {} THEN 0
                        ELSE LET v == CHOOSE x \in V : TRUE
                             IN  v * Cardinality({p \in S : mask[p] = v})
                                 + Total(V \ {v})
        IN  Total(vals)

(* A faulty variant of np.maximum: the element-wise uint8 sum, which wraps. *)
MaximumAsWrappingAdd(a, b) == [p \in DOMAIN a |-> (a[p] + b[p]) % Uint8Range]

(* A faulty variant of np.maximum: the new mask replaces the combined one. *)
MaximumAsOverwrite(a, b) == b

(* np.maximum(a, b), element-wise *)
Maximum(a, b) == [p \in DOMAIN a |-> IF a[p] >= b[p] THEN a[p] ELSE b[p]]


(***************************************************************************)
(* Rasterizer                                                              *)
(***************************************************************************)
(* np.array(flat).reshape(-1, 2): the flat ring [x1,y1,x2,y2,...] as the   *)
(* sequence of points <<x, y>>.                                            *)
Reshape(flat) == [k \in 1 .. (Len(flat) \div 2) |-> <<flat[2 * k - 1], flat[2 * k]>>]

(* The edges of the closed polygon: point i to point i+1, the last to the  *)
(* first.                                                                  *)
EdgeFrom(points, i) == points[i]
EdgeTo(points, i) == points[(i % Len(points)) + 1]

(* The pixel (x, y) lies on the segment from a to b.  For a horizontal,    *)
(* vertical or 45-degree segment between integer points these are exactly  *)
(* the pixels the 8-connected line of cv2 sets.                            *)
OnSegment(x, y, a, b) ==
    /\ (b[1] - a[1]) * (y - a[2]) = (b[2] - a[2]) * (x - a[1])
    /\ (a[1] <= x /\ x <= b[1]) \/ (b[1] <= x /\ x <= a[1])
    /\ (a[2] <= y /\ y <= b[2]) \/ (b[2] <= y /\ y <= a[2])

(* cv2.fillPoly first draws every edge of the polygon in the colour. *)
OnBoundary(x, y, points) ==
    \E i \in 1 .. Len(points) : OnSegment(x, y, EdgeFrom(points, i), EdgeTo(points, i))

(* The edge from a to b is active on scanline y (y0 <= y < y1) and crosses *)
(* it strictly left of x.                                                  *)
CrossesLeftOf(x, y, a, b) ==
    LET lo == IF a[2] < b[2] THEN a ELSE b
        hi == IF a[2] < b[2] THEN b ELSE a
    IN  /\ lo[2] <= y
        /\ y < hi[2]
        /\ (lo[1] - x) * (hi[2] - lo[2]) + (y - lo[2]) * (hi[1] - lo[1]) < 0

(* cv2.fillPoly then fills each scanline between pairs of edge crossings   *)
(* (even-odd rule).                                                        *)
InsideEvenOdd(x, y, points) ==
    Cardinality({i \in 1 .. Len(points) :
        CrossesLeftOf(x, y, EdgeFrom(points, i), EdgeTo(points, i))}) % 2 = 1

(* A faulty variant of fillPoly: the scanline fill alone, the edges not drawn. *)
fillPolyInteriorOnly(mask, points, color) ==
    [p \in DOMAIN mask |->
        IF InsideEvenOdd(p[2], p[1], points) THEN color ELSE mask[p]]

(* cv2.fillPoly(mask, [points], color) for a polygon inside the image      *)
(* whose edges are horizontal, vertical or at 45 degrees.                  *)
fillPoly(mask, points, color) ==
    [p \in DOMAIN mask |->
        IF OnBoundary(p[2], p[1], points) \/ InsideEvenOdd(p[2], p[1], points)
        THEN color ELSE mask[p]]

points_to_mask(points, shape) == fillPoly(Zeros(shape), points, Positive)

(***************************************************************************)
(* Metrics engine                                                          *)
(***************************************************************************)
(* A faulty variant of calculate_iou: the predicted area as the denominator. *)
calculate_iou_over_mask2(mask1, mask2) ==
    LET intersection == SumBool(LogicalAnd(mask1, mask2))
        union == RDiv(R(MaskSum(mask2)), R(Positive))
    IN  IF union # R(0) THEN RDiv(R(intersection), union) ELSE R(0)

calculate_iou(mask1, mask2) ==
    LET intersection == SumBool(LogicalAnd(mask1, mask2))
        union == SumBool(LogicalOr(mask1, mask2))
    IN  IF union # 0 THEN RDiv(R(intersection), R(union)) ELSE R(0)

(* A faulty variant of calculate_precision: mask2.sum() not divided by 255. *)
calculate_precision_unnormalized(mask1, mask2) ==
    LET true_positive == SumBool(LogicalAnd(mask1, mask2))
        predicted_positive == R(MaskSum(mask2))
    IN  IF predicted_positive # R(0)
        THEN RDiv(R(true_positive), predicted_positive) ELSE R(0)

calculate_precision(mask1, mask2) ==
    LET true_positive == SumBool(LogicalAnd(mask1, mask2))
        predicted_positive == RDiv(R(MaskSum(mask2)), R(Positive))
    IN  IF predicted_positive # R(0)
        THEN RDiv(R(true_positive), predicted_positive) ELSE R(0)

(* A faulty variant of calculate_recall: 1 when there is no actual positive. *)
calculate_recall_one_when_empty(mask1, mask2) ==
    LET true_positive == SumBool(LogicalAnd(mask1, mask2))
        actual_positive == RDiv(R(MaskSum(mask1)), R(Positive))
    IN  IF actual_positive # R(0)
        THEN RDiv(R(true_positive), actual_positive) ELSE R(1)

calculate_recall(mask1, mask2) ==
    LET true_positive == SumBool(LogicalAnd(mask1, mask2))
        actual_positive == RDiv(R(MaskSum(mask1)), R(Positive))
    IN  IF actual_positive # R(0)
        THEN RDiv(R(true_positive), actual_positive) ELSE R(0)

(* A faulty variant of calculate_f1: the factor 2 left out. *)
calculate_f1_without_factor(precision, recall) ==
    IF RAdd(precision, recall) # R(0)
    THEN RDiv(RMul(precision, recall), RAdd(precision, recall))
    ELSE R(0)

calculate_f1(precision, recall) ==
    IF RAdd(precision, recall) # R(0)
    THEN RDiv(RMul(R(2), RMul(precision, recall)), RAdd(precision, recall))
    ELSE R(0)

calculate_pixel_accuracy(pred, gt) ==
    LET correct_pixels == SumBool(EqualCells(pred, gt))
        total_pixels == ShapeOf(pred)[1] * ShapeOf(pred)[2]
    IN  RDiv(R(correct_pixels), R(total_pixels))

(* A faulty variant of calculate_dice_coefficient: the union as the denominator. *)
calculate_dice_over_union(mask1, mask2) ==
    LET intersection == SumBool(LogicalAnd(mask1, mask2))
        union == SumBool(LogicalOr(mask1, mask2))
    IN  IF union # 0 THEN RDiv(R(2 * intersection), R(union)) ELSE R(1)

(* A faulty variant of calculate_dice_coefficient: 0 on a zero denominator. *)
calculate_dice_zero_when_empty(mask1, mask2) ==
    LET intersection == SumBool(LogicalAnd(mask1, mask2))
        mask1_sum == RDiv(R(MaskSum(mask1)), R(Positive))
        mask2_sum == RDiv(R(MaskSum(mask2)), R(Positive))
    IN  IF RAdd(mask1_sum, mask2_sum) # R(0)
        THEN RDiv(R(2 * intersection), RAdd(mask1_sum, mask2_sum)) ELSE R(0)

calculate_dice_coefficient(mask1, mask2) ==
    LET intersection == SumBool(LogicalAnd(mask1, mask2))
        mask1_sum == RDiv(R(MaskSum(mask1)), R(Positive))
        mask2_sum == RDiv(R(MaskSum(mask2)), R(Positive))
    IN  IF RAdd(mask1_sum, mask2_sum) # R(0)
        THEN RDiv(R(2 * intersection), RAdd(mask1_sum, mask2_sum)) ELSE R(1)

(* Lines 86-93 of evaluate_metrics: the returned 6-tuple. *)
Metrics(gt, pred) ==
    LET iou == calculate_iou(gt, pred)
        precision == calculate_precision(gt, pred)
        recall == calculate_recall(gt, pred)
        f1 == calculate_f1(precision, recall)
        pixel_accuracy == calculate_pixel_accuracy(pred, gt)
        dice == calculate_dice_coefficient(gt, pred)
    IN  <<iou, precision, recall, f1, pixel_accuracy, dice>>

(* load_annotations: data.get('annotations', []) of the parsed JSON file *)
load_annotations(data) ==
    IF "annotations" \in DOMAIN data THEN data.annotations ELSE <<>>

(***************************************************************************)
(* Inputs: the configuration and the two COCO files it names.              *)
(***************************************************************************)
(* The flat ring of the axis-aligned rectangle with corners (x0,y0) and    *)
(* (x1,y1), in the order the scenario of the specification lists them; it  *)
(* is a line or a point when x0 = x1 or y0 = y1.                           *)
Rect(x0, y0, x1, y1) == <<x0, y0, x0, y1, x1, y1, x1, y0>>

Rings(shape) ==
    LET h == shape[1]
        w == shape[2]
    IN  {Rect(x0, y0, x1, y1) :
            <<x0, y0, x1, y1>> \in
                {q \in (0 .. w - 1) \X (0 .. h - 1) \X (0 .. w - 1) \X (0 .. h - 1) :
                    q[1] <= q[3] /\ q[2] <= q[4]}}
        \cup {<<x, y, x + 1, y + 1, x, y>> : <<x, y>> \in (0 .. w - 2) \X (0 .. h - 2)}
        \cup {<<x, y + 1, x + 1, y, x, y + 1>> : <<x, y>> \in (0 .. w - 2) \X (0 .. h - 2)}

(* One COCO annotation: only segmentation[0] is read. *)
Annotation(ring) == [segmentation |-> <<ring>>]

AnnotationLists(shape, n) ==
    UNION {[1 .. k -> {Annotation(r) : r \in Rings(shape)}] : k \in 0 .. n}

(* The parsed JSON documents holding the list l: with the 'annotations'    *)
(* key, or, for the empty list, also without it.                           *)
Files(l) ==
    {[images |-> <<>>, annotations |-> l]}
        \cup (IF l = <<>> THEN {[images |-> <<>>]} ELSE {})

Shapes(n) == {s \in (1 .. n) \X (1 .. n) : s[1] * s[2] <= n}

Config(shape, gt_file, pred_file) ==
    [input |-> [ground_truth_coco_output |-> gt_file,
                prediction_coco_output |-> pred_file],
     image |-> [height |-> shape[1], width |-> shape[2]]]

(* The scenario of the specification: two 10-sided squares shifted by 5 in *)
(* x, on a 20 x 20 image.                                                  *)
ScenarioConfig ==
    Config(<<20, 20>>,
           [images |-> <<>>,
            annotations |-> <<Annotation(<<0, 0, 0, 10, 10, 10, 10, 0>>)>>],
           [images |-> <<>>,
            annotations |-> <<Annotation(<<5, 0, 5, 10, 15, 10, 15, 0>>)>>])

(* The configurations enumerated: the scenario, and every shape of at most *)
(* MaxPixels pixels with every pair of files holding at most MaxAnn        *)
(* annotations together.                                                   *)
IsInput(c) ==
    \/ c = ScenarioConfig
    \/ \E shape \in Shapes(MaxPixels) :
       \E l \in AnnotationLists(shape, MaxAnn) :
       \E m \in AnnotationLists(shape, MaxAnn - Len(l)) :
       \E f \in Files(l) : \E g \in Files(m) :
           c = Config(shape, f, g)

(***************************************************************************)
(* evaluate_metrics as a state machine                                     *)
(***************************************************************************)
Init ==
    /\ IsInput(config)
    /\ pc = "start"
    /\ img_shape = None
    /\ gt_annotations = None
    /\ pred_annotations = None
    /\ gt_combined_mask = None
    /\ pred_combined_mask = None
    /\ gi = 0
    /\ pj = 0
    /\ gt_masks = <<>>
    /\ pred_masks = <<>>
    /\ result = None

(* Lines 62-71: read the configuration, load both files, zero both masks. *)
Load ==
    /\ pc = "start"
    /\ LET shape == <<config.image.height, config.image.width>>
       IN  /\ img_shape' = shape
           /\ gt_combined_mask' = Zeros(shape)
           /\ pred_combined_mask' = Zeros(shape)
    /\ gt_annotations' = load_annotations(config.input.ground_truth_coco_output)
    /\ pred_annotations' = load_annotations(config.input.prediction_coco_output)
    /\ pc' = "gt_loop"
    /\ UNCHANGED <<config, gi, pj, gt_masks, pred_masks, result>>

(* Lines 74-77: one iteration of the ground-truth loop. *)
GtLoopBody ==
    /\ pc = "gt_loop"
    /\ gi < Len(gt_annotations)
    /\ LET gt == gt_annotations[gi + 1]
           gt_points == Reshape(gt.segmentation[1])
           mask == points_to_mask(gt_points, img_shape)
       IN  /\ gt_masks' = Append(gt_masks, mask)
           /\ gt_combined_mask' = Maximum(gt_combined_mask, mask)
    /\ gi' = gi + 1
    /\ UNCHANGED <<pc, config, img_shape, gt_annotations, pred_annotations,
                   pred_combined_mask, pj, pred_masks, result>>

(* Line 74: the ground-truth list is exhausted. *)
GtLoopExit ==
    /\ pc = "gt_loop"
    /\ gi = Len(gt_annotations)
    /\ pc' = "pred_loop"
    /\ UNCHANGED <<config, img_shape, gt_annotations, pred_annotations,
                   gt_combined_mask, pred_combined_mask, gi, pj, gt_masks,
                   pred_masks, result>>

(* Lines 80-83: one iteration of the prediction loop. *)
PredLoopBody ==
    /\ pc = "pred_loop"
    /\ pj < Len(pred_annotations)
    /\ LET pred == pred_annotations[pj + 1]
           pred_points == Reshape(pred.segmentation[1])
           mask == points_to_mask(pred_points, img_shape)
       IN  /\ pred_masks' = Append(pred_masks, mask)
           /\ pred_combined_mask' = Maximum(pred_combined_mask, mask)
    /\ pj' = pj + 1
    /\ UNCHANGED <<pc, config, img_shape, gt_annotations, pred_annotations,
                   gt_combined_mask, gi, gt_masks, result>>

(* Line 80: the prediction list is exhausted. *)
PredLoopExit ==
    /\ pc = "pred_loop"
    /\ pj = Len(pred_annotations)
    /\ pc' = "metrics"
    /\ UNCHANGED <<config, img_shape, gt_annotations, pred_annotations,
                   gt_combined_mask, pred_combined_mask, gi, pj, gt_masks,
                   pred_masks, result>>

(* Lines 86-93: compute the six metrics and return them. *)
CalculateMetrics ==
    /\ pc = "metrics"
    /\ result' = Metrics(gt_combined_mask, pred_combined_mask)
    /\ pc' = "done"
    /\ UNCHANGED <<config, img_shape, gt_annotations, pred_annotations,
                   gt_combined_mask, pred_combined_mask, gi, pj, gt_masks,
                   pred_masks>>

Next ==
    \/ Load
    \/ GtLoopBody
    \/ GtLoopExit
    \/ PredLoopBody
    \/ PredLoopExit
    \/ CalculateMetrics

Spec == Init /\ [][Next]_vars

(***************************************************************************)
(* The metric functions on every pair of binary masks: the state at line   *)
(* 85 for arbitrary combined masks of one shape, the annotation lists that *)
(* produced them not being tracked.                                        *)
(***************************************************************************)
BinaryMasks(shape) == [Pixels(shape) -> {0, Positive}]

InitMasks ==
    /\ img_shape \in Shapes(MaxMaskPixels)
    /\ gt_combined_mask \in BinaryMasks(img_shape)
    /\ pred_combined_mask \in BinaryMasks(img_shape)
    /\ pc = "metrics"
    /\ config = None
    /\ gt_annotations = None
    /\ pred_annotations = None
    /\ gi = 0
    /\ pj = 0
    /\ gt_masks = <<>>
    /\ pred_masks = <<>>
    /\ result = None

NextMasks == CalculateMetrics

SpecMasks == InitMasks /\ [][NextMasks]_vars

(***************************************************************************)
(* Vocabulary of the properties                                            *)
(***************************************************************************)
AllZero(mask) == \A p \in DOMAIN mask : mask[p] = 0

IsBinary(mask) == \A p \in DOMAIN mask : mask[p] \in {0, Positive}

Count(mask) == Cardinality({p \in DOMAIN mask : mask[p] = Positive})

Overlap(a, b) == Cardinality({p \in DOMAIN a : a[p] = Positive /\ b[p] = Positive})

Covered(a, b) == Cardinality({p \in DOMAIN a : a[p] = Positive \/ b[p] = Positive})

Collinear(points) ==
    \A i, j, k \in 1 .. Len(points) :
        (points[j][1] - points[i][1]) * (points[k][2] - points[i][2])
            = (points[j][2] - points[i][2]) * (points[k][1] - points[i][1])

(* The accumulation loop of evaluate_metrics (lines 70, 74-77) run over    *)
(* the per-annotation masks taken in the order order[1], order[2], ...     *)
RECURSIVE CombineInOrder(_, _, _)
CombineInOrder(masks, order, n) ==
    IF n = 0 THEN Zeros(img_shape)
    ELSE Maximum(CombineInOrder(masks, order, n - 1), masks[order[n]])

Orders(masks) ==
    LET n == Len(masks)
    IN  {o \in [1 .. n -> 1 .. n] : \A i, j \in 1 .. n : o[i] = o[j] => i = j}

(* The combined masks the loop produces over all permutations of a list of *)
(* per-annotation masks.                                                   *)
CombinedOverOrders(masks) ==
    {CombineInOrder(masks, o, Len(masks)) : o \in Orders(masks)}

Zero == R(0)
One == R(1)

(***************************************************************************)
(* Properties of the metric functions, checked under SpecMasks.            *)
(***************************************************************************)
(* C1: for every shape and every pair of binary masks of that shape, each  *)
(* of the six values evaluate_metrics returns is >= 0 and <= 1, the        *)
(* zero-denominator cases included.                                        *)
C1_RangeBound ==
    pc = "done" =>
        \A k \in 1 .. 6 : RLe(Zero, result[k]) /\ RLe(result[k], One)

(* C1 witness: metrics were returned for an empty ground truth and a       *)
(* non-empty prediction (zero denominator of Recall), on more than one     *)
(* pixel.                                                                  *)
C1_Witness ==
    /\ pc = "done"
    /\ AllZero(gt_combined_mask)
    /\ Count(pred_combined_mask) > 1

(* C3: masks that share no positive pixel, at least one of them non-empty, *)
(* give IoU = Precision = Recall = F1 = Dice = 0.                          *)
C3_Disjoint ==
    (/\ pc = "done"
     /\ Overlap(gt_combined_mask, pred_combined_mask) = 0
     /\ ~(AllZero(gt_combined_mask) /\ AllZero(pred_combined_mask)))
    => /\ result[1] = Zero
       /\ result[2] = Zero
       /\ result[3] = Zero
       /\ result[4] = Zero
       /\ result[6] = Zero

(* C3 witness: both masks non-empty and disjoint. *)
C3_Witness ==
    /\ pc = "done"
    /\ Overlap(gt_combined_mask, pred_combined_mask) = 0
    /\ Count(gt_combined_mask) > 0
    /\ Count(pred_combined_mask) > 0

(* C4: a non-empty mask compared with itself gives IoU = Dice = Precision  *)
(* = Recall = F1 = 1.                                                      *)
C4_Identity ==
    (/\ pc = "done"
     /\ gt_combined_mask = pred_combined_mask
     /\ ~AllZero(gt_combined_mask))
    => /\ result[1] = One
       /\ result[2] = One
       /\ result[3] = One
       /\ result[4] = One
       /\ result[6] = One

(* C4 witness: a mask with some but not all pixels positive was compared   *)
(* with itself.                                                            *)
C4_Witness ==
    /\ pc = "done"
    /\ gt_combined_mask = pred_combined_mask
    /\ Count(gt_combined_mask) > 0
    /\ ~AllZero([p \in DOMAIN gt_combined_mask |-> Positive - gt_combined_mask[p]])

(* C5: swapping the two masks changes neither IoU nor Dice: the returned   *)
(* values equal those of the call with the arguments exchanged.            *)
C5_Symmetry ==
    pc = "done" =>
        /\ result[1] = calculate_iou(pred_combined_mask, gt_combined_mask)
        /\ result[6] = calculate_dice_coefficient(pred_combined_mask, gt_combined_mask)

(* C5 witness: overlapping masks with different numbers of positive pixels *)
(* were compared.                                                          *)
C5_Witness ==
    /\ pc = "done"
    /\ Overlap(gt_combined_mask, pred_combined_mask) > 0
    /\ Count(gt_combined_mask) > Count(pred_combined_mask)

C2_EmptyEmpty ==
    (/\ pc = "done"
     /\ AllZero(gt_combined_mask)
     /\ AllZero(pred_combined_mask))
    => result = <<Zero, Zero, Zero, Zero, One, One>>

(* C2 witness: evaluate_metrics returned for two files that both lack the  *)
(* 'annotations' key.                                                      *)
C2_Witness ==
    /\ pc = "done"
    /\ "annotations" \notin DOMAIN config.input.ground_truth_coco_output
    /\ "annotations" \notin DOMAIN config.input.prediction_coco_output
    /\ AllZero(gt_combined_mask)
    /\ AllZero(pred_combined_mask)

(* C6: when a loop has finished, its combined mask is the one the loop     *)
(* produces for every permutation of the per-annotation masks, and the     *)
(* returned metrics are those of the combined masks of every pair of       *)
(* permutations of the two lists.                                          *)
C6_OrderIndependent ==
    /\ pc = "pred_loop" =>
          CombinedOverOrders(gt_masks) = {gt_combined_mask}
    /\ pc = "metrics" =>
          CombinedOverOrders(pred_masks) = {pred_combined_mask}
    /\ pc = "done" =>
          \A gt \in CombinedOverOrders(gt_masks) :
              \A pred \in CombinedOverOrders(pred_masks) :
                  result = Metrics(gt, pred)

(* C6 witness: a finished ground-truth loop over two annotations whose     *)
(* masks overlap, neither containing the other.                            *)
C6_Witness ==
    /\ pc = "pred_loop"
    /\ Len(gt_masks) = 2
    /\ Count(gt_masks[1]) > Overlap(gt_masks[1], gt_masks[2])
    /\ Count(gt_masks[2]) > Overlap(gt_masks[1], gt_masks[2])
    /\ Overlap(gt_masks[1], gt_masks[2]) > 0

(* C7 as stated: the scenario gives areas 100 and 100, intersection 50,    *)
(* union 150, IoU = 50/150, Precision = Recall = F1 = Dice = 0.5 and       *)
(* Pixel Accuracy = 0.75.                                                  *)
C7_ScenarioAsClaimed ==
    (config = ScenarioConfig /\ pc = "done") =>
        /\ Count(gt_combined_mask) = 100
        /\ Count(pred_combined_mask) = 100
        /\ Overlap(gt_combined_mask, pred_combined_mask) = 50
        /\ Covered(gt_combined_mask, pred_combined_mask) = 150
        /\ result = <<Norm(50, 150), Norm(1, 2), Norm(1, 2), Norm(1, 2),
                      Norm(3, 4), Norm(1, 2)>>

(* C7 amended: the filled squares include their boundary, so the scenario  *)
(* gives areas 121 and 121, intersection 66, union 176, IoU = 66/176,      *)
(* Precision = Recall = F1 = Dice = 66/121 and Pixel Accuracy =            *)
(* (400 - 110)/400.                                                        *)
C7_Scenario ==
    (config = ScenarioConfig /\ pc = "done") =>
        /\ Count(gt_combined_mask) = 121
        /\ Count(pred_combined_mask) = 121
        /\ Overlap(gt_combined_mask, pred_combined_mask) = 66
        /\ Covered(gt_combined_mask, pred_combined_mask) = 176
        /\ result = <<Norm(66, 176), Norm(66, 121), Norm(66, 121), Norm(66, 121),
                      Norm(400 - 110, 400), Norm(2 * 66, 121 + 121)>>

(* C7 witness: evaluate_metrics returned for the scenario. *)
C7_Witness == config = ScenarioConfig /\ pc = "done" /\ Len(result) = 6

(* The polygon the ground-truth loop rasterized last, and the prediction   *)
(* loop's.                                                                 *)
LastGtPoints == Reshape(gt_annotations[gi].segmentation[1])
LastPredPoints == Reshape(pred_annotations[pj].segmentation[1])

(* C8 as stated: after an iteration of either loop on a polygon whose      *)
(* points are all collinear, the mask points_to_mask returned is all-zero. *)
C8_DegenerateAllZero ==
    /\ (pc = "gt_loop" /\ gi > 0) =>
          \A points \in {LastGtPoints} :
              Collinear(points) => AllZero(gt_masks[gi])
    /\ (pc = "pred_loop" /\ pj > 0) =>
          \A points \in {LastPredPoints} :
              Collinear(points) => AllZero(pred_masks[pj])

(* The mask, and the combined mask it was merged into, are 255 at every    *)
(* point of the polygon.                                                   *)
DrawnAt(points, mask, combined) ==
    \A k \in 1 .. Len(points) :
        /\ mask[<<points[k][2], points[k][1]>>] = Positive
        /\ combined[<<points[k][2], points[k][1]>>] = Positive

(* C8 amended: after an iteration of either loop on a polygon whose points *)
(* are all collinear, the mask points_to_mask returned is 255 at every one *)
(* of the polygon's points (its edges are drawn), and so is the combined   *)
(* mask.                                                                   *)
C8_DegenerateDrawsEdges ==
    /\ (pc = "gt_loop" /\ gi > 0) =>
          \A points \in {LastGtPoints} :
              Collinear(points) => DrawnAt(points, gt_masks[gi], gt_combined_mask)
    /\ (pc = "pred_loop" /\ pj > 0) =>
          \A points \in {LastPredPoints} :
              Collinear(points) => DrawnAt(points, pred_masks[pj], pred_combined_mask)

(* C8 witness: the ground-truth loop has just rasterized a collinear       *)
(* polygon with three distinct pixels on a line.                           *)
C8_Witness ==
    /\ pc = "gt_loop"
    /\ gi > 0
    /\ Count(gt_masks[gi]) >= 3
    /\ Collinear(LastGtPoints)

(* The loop invariant of one accumulation loop after n iterations. *)
Accumulated(combined, masks, n) ==
    /\ Len(masks) = n
    /\ IsBinary(combined)
    /\ \A p \in DOMAIN combined :
          combined[p] = Positive
              <=> \E k \in 1 .. n : masks[k][p] = Positive

(* C9: before the first and after every iteration of each loop, every cell *)
(* of the combined mask is 0 or 255 and is 255 exactly when an annotation  *)
(* processed so far has 255 there; an empty list leaves the mask all-zero; *)
(* after the loop mask.sum()/255 is the number of positive pixels.         *)
C9_LoopInvariant ==
    /\ pc \in {"gt_loop", "pred_loop"} =>
          Accumulated(gt_combined_mask, gt_masks, gi)
    /\ pc \in {"pred_loop", "metrics"} =>
          Accumulated(pred_combined_mask, pred_masks, pj)
    /\ (pc = "pred_loop" /\ gt_annotations = <<>>) => AllZero(gt_combined_mask)
    /\ (pc = "metrics" /\ pred_annotations = <<>>) => AllZero(pred_combined_mask)
    /\ pc = "pred_loop" =>
          RDiv(R(MaskSum(gt_combined_mask)), R(Positive))
              = R(Count(gt_combined_mask))
    /\ pc = "metrics" =>
          RDiv(R(MaskSum(pred_combined_mask)), R(Positive))
              = R(Count(pred_combined_mask))

(* C9 witness: the second iteration of the prediction loop has added       *)
(* pixels to a mask it overlaps.                                           *)
C9_Witness ==
    /\ pc = "pred_loop"
    /\ pj = 2
    /\ Overlap(pred_masks[1], pred_masks[2]) > 0
    /\ Count(pred_combined_mask) > Count(pred_masks[1])
=============================================================================
